---- MODULE Spec2Model ----
(***************************************************************************)
(* A model of the in-memory social platform of src/social_platform.py:     *)
(* UserManager, ConnectionManager, RoomManager, MessageManager,            *)
(* RealtimeManager and the SocialPlatform facade that composes them.       *)
(*                                                                         *)
(* Every method is a pure operator over the dictionaries it touches, named *)
(* as in the source; an action applies one public method and records the   *)
(* call and its outcome in `last`.  A raised Python exception is an        *)
(* outcome ("KeyError", "ValueError") that keeps the writes made before    *)
(* the raise.                                                              *)
(***************************************************************************)
EXTENDS Integers, Sequences, FiniteSets, TLC

VARIABLES
    users,              \* UserManager.users: user_id -> profile
    active_sessions,    \* UserManager.active_sessions: session_id -> user_id
    connections,        \* ConnectionManager.connections: connection_id -> edge
    user_connections,   \* ConnectionManager.user_connections: user_id -> set of ids
    rooms,              \* RoomManager.rooms: room_id -> room
    user_rooms,         \* RoomManager.user_rooms: user_id -> set of room ids
    messages,           \* MessageManager.messages: message_id -> message
    room_messages,      \* MessageManager.room_messages: room_id -> list of ids
    user_messages,      \* MessageManager.user_messages: user_id -> list of ids
    user_subscriptions, \* RealtimeManager.user_subscriptions: user_id -> event types
    room_subscriptions, \* RealtimeManager.room_subscriptions: room_id -> user ids
    event_queue,        \* RealtimeManager.event_queue: the event history
    wired,              \* TRUE when SocialPlatform._setup_callbacks registered the callbacks
    raising,            \* where each callback list holds a callback that raises:
                        \* "none", "first" (ahead of the others) or "last"
    joining,            \* the join_room calls suspended at their await (line 491)
    clock,              \* the wall clock read by time.time()
    status_written,     \* history: set_user_status or update_user has been called
    query,              \* the last read made (get_room_messages, ...) and what it returned
    last                \* the latest call: operation, arguments, outcome

vars == <<users, active_sessions, connections, user_connections, rooms, user_rooms,
          messages, room_messages, user_messages, user_subscriptions,
          room_subscriptions, event_queue, wired, raising, joining, clock, status_written,
          query, last>>

userVars == <<users, active_sessions>>
connVars == <<connections, user_connections>>
roomVars == <<rooms, user_rooms>>
msgVars  == <<messages, room_messages, user_messages>>
busVars  == <<user_subscriptions, room_subscriptions>>

-----------------------------------------------------------------------------
(* Bounds of the model *)

MaxSessions    == 2     \* session ids available at one time
MaxConnections == 3     \* connection ids available at one time
MaxMessages    == 2     \* messages sent in one run
MaxEvents      == 3     \* events in the history of one run
MaxCapacity    == 2     \* largest capacity a room is created with
MaxClock       == 3     \* last clock reading of one run

(* Identifier universes *)

UserIds       == {"alice", "bob", "carol"}
AccountIds    == {"alice", "bob"}       \* the identifiers that get registered
RoomIds       == {"R1"}
SessionIds    == 1..MaxSessions
ConnectionIds == 1..MaxConnections
MessageIds    == 1..MaxMessages
Usernames     == {"alice_wonder", "bob_builder"}
Contents      == {"hello", "x"}
Emojis        == {"thumbs_up"}

None   == "None"        \* Python's None
Absent == "absent"      \* a key the caller's dictionary does not hold
NoId   == 0             \* None, where a drawn identifier is expected

(* enum values, as the source spells them *)
ONLINE    == "online"
AWAY      == "away"
BUSY      == "busy"
INVISIBLE == "invisible"
OFFLINE   == "offline"
UserStatus == {ONLINE, AWAY, BUSY, INVISIBLE, OFFLINE}

FRIEND    == "friend"
FOLLOWER  == "follower"
FOLLOWING == "following"
BLOCKED   == "blocked"
MUTUAL    == "mutual"
ConnectionType == {FRIEND, FOLLOWER, FOLLOWING, BLOCKED, MUTUAL}

PUBLIC      == "public"
PRIVATE     == "private"
INVITE_ONLY == "invite_only"
TEMPORARY   == "temporary"
RoomType == {PUBLIC, PRIVATE, INVITE_ONLY, TEMPORARY}

-----------------------------------------------------------------------------
(* Dictionaries are functions whose domain is the set of keys held *)

EmptyDict == [k \in {} |-> None]

Put(d, k, v) == [x \in (DOMAIN d) \cup {k} |-> IF x = k THEN v ELSE d[x]]

Del(d, k) == [x \in (DOMAIN d) \ {k} |-> d[x]]

\* dict.get(k, default)
Get(d, k, default) == IF k \in DOMAIN d THEN d[k] ELSE default

\* the record of a call: the method, the user or room identifiers it names
\* (a1, a2, and a3 for a call that names three), the session, connection or
\* message identifier it names or draws (id, NoId when none) and its outcome
Call3(op, a1, a2, a3, id, ret) ==
    [op |-> op, a1 |-> a1, a2 |-> a2, a3 |-> a3, id |-> id, ret |-> ret]

Call(op, a1, a2, id, ret) == Call3(op, a1, a2, None, id, ret)

Bool(b) == IF b THEN "True" ELSE "False"

\* before_timestamp = None
NoTimestamp == 0 - 1

\* the join_room calls suspended at one time, and their task identifiers
MaxJoining == 2
JoinCalls == 1..MaxJoining

\* the limits the reads of the model pass
MaxLimit == 2
Limits == 0..MaxLimit

\* the record of a read: the method, the room or user it names, its limit, its
\* before_timestamp (NoTimestamp when it has none) and the list it returned
Query(op, key, limit, before_timestamp, result) ==
    [op |-> op, key |-> key, limit |-> limit, before_timestamp |-> before_timestamp,
     result |-> result]

-----------------------------------------------------------------------------
(* RealtimeManager *)

SocialEvent(event_type, user_id, room_id) ==
    [event_type |-> event_type, user_id |-> user_id, room_id |-> room_id]

\* emit_event with the event put at the head of the history
emit_event_prepends(q, event) == <<event>> \o q

\* emit_event: the event is appended to the history first; the handlers of
\* its type run afterwards, each under try/except, and _send_notification
\* only prints, so neither writes anything
emit_event(q, event) == Append(q, event)

\* usub is user_subscriptions; event_types is the set of the list's elements
subscribe_user(usub, user_id, event_types) ==
    Put(usub, user_id, Get(usub, user_id, {}) \cup event_types)

\* rsub is room_subscriptions
subscribe_to_room(rsub, user_id, room_id) ==
    Put(rsub, room_id, Get(rsub, room_id, {}) \cup {user_id})

unsubscribe_from_room(rsub, user_id, room_id) ==
    IF room_id \in DOMAIN rsub THEN [rsub EXCEPT ![room_id] = @ \ {user_id}] ELSE rsub

\* the test of get_recent_events without its room clause
Relevant_without_rooms(usub, rsub, event, user_id) ==
    \/ event.event_type \in Get(usub, user_id, {})
    \/ event.user_id = user_id

\* the test of get_recent_events on one event
Relevant(usub, rsub, event, user_id) ==
    \/ event.event_type \in Get(usub, user_id, {})
    \/ event.user_id = user_id
    \/ /\ event.room_id # None
       /\ event.room_id \in DOMAIN rsub
       /\ user_id \in rsub[event.room_id]

\* the loop of get_recent_events from position i of the history downwards,
\* with the events collected so far
RECURSIVE recent_events_from(_, _, _, _, _, _, _)
recent_events_from(usub, rsub, q, user_id, limit, i, relevant_events) ==
    IF i = 0 THEN relevant_events
    ELSE IF Relevant(usub, rsub, q[i], user_id)
    THEN LET collected == Append(relevant_events, q[i])
         IN  IF Len(collected) >= limit THEN collected
             ELSE recent_events_from(usub, rsub, q, user_id, limit, i - 1, collected)
    ELSE recent_events_from(usub, rsub, q, user_id, limit, i - 1, relevant_events)

get_recent_events(usub, rsub, q, user_id, limit) ==
    recent_events_from(usub, rsub, q, user_id, limit, Len(q), << >>)

-----------------------------------------------------------------------------
(* Actions of RealtimeManager *)

\* the events and the subscriptions the calls of the model pass
EventTypesPassed == {"user_presence_changed", "room_user_joined"}
EventsPassed ==
    {SocialEvent(t, u, r) : t \in EventTypesPassed, u \in AccountIds,
                            r \in RoomIds \cup {None}}
Subscribers == {"bob"}

EmitEvent ==
    \E event \in EventsPassed :
        /\ event_queue' = emit_event(event_queue, event)
        /\ Len(event_queue') <= MaxEvents
        /\ last' = Call("emit_event", event.user_id, event.room_id, NoId, None)
        /\ UNCHANGED <<userVars, connVars, roomVars, msgVars, busVars, wired, raising, joining, clock,
                       status_written, query>>

SubscribeUser ==
    \E user_id \in Subscribers, event_type \in EventTypesPassed :
        /\ user_subscriptions' = subscribe_user(user_subscriptions, user_id, {event_type})
        /\ last' = Call("subscribe_user", user_id, None, NoId, None)
        /\ UNCHANGED <<userVars, connVars, roomVars, msgVars, room_subscriptions,
                       event_queue, wired, raising, joining, clock, status_written, query>>

SubscribeToRoom ==
    \E user_id \in Subscribers, room_id \in RoomIds :
        /\ room_subscriptions' = subscribe_to_room(room_subscriptions, user_id, room_id)
        /\ last' = Call("subscribe_to_room", user_id, room_id, NoId, None)
        /\ UNCHANGED <<userVars, connVars, roomVars, msgVars, user_subscriptions,
                       event_queue, wired, raising, joining, clock, status_written, query>>

UnsubscribeFromRoom ==
    \E user_id \in Subscribers, room_id \in RoomIds :
        /\ room_subscriptions' = unsubscribe_from_room(room_subscriptions, user_id, room_id)
        /\ last' = Call("unsubscribe_from_room", user_id, room_id, NoId, None)
        /\ UNCHANGED <<userVars, connVars, roomVars, msgVars, user_subscriptions,
                       event_queue, wired, raising, joining, clock, status_written, query>>

GetRecentEvents ==
    \E user_id \in AccountIds, limit \in 0..MaxEvents :
        /\ query' = Query("get_recent_events", user_id, limit, NoTimestamp,
                          get_recent_events(user_subscriptions, room_subscriptions,
                                            event_queue, user_id, limit))
        /\ last' = Call("get_recent_events", user_id, None, NoId, "list")
        /\ UNCHANGED <<userVars, connVars, roomVars, msgVars, busVars, event_queue,
                       wired, raising, joining, clock, status_written>>

-----------------------------------------------------------------------------
(* SocialPlatform._setup_callbacks: the three callbacks, each emitting one event *)

on_presence_change(q, user_id) ==
    emit_event(q, SocialEvent("user_presence_changed", user_id, None))

on_room_event(q, event_type, room_id, user_id) ==
    emit_event(q, SocialEvent("room_" \o event_type, user_id, room_id))

on_message_event(q, event_type, message) ==
    emit_event(q, SocialEvent("message_" \o event_type, message.sender_id, message.room_id))

-----------------------------------------------------------------------------
(* UserManager.  An operator takes the dictionaries and the event history
   (us, ss, q) and returns them as a record with the method's result. *)

\* a manager's callback list: the platform's callback when registered, and the
\* callback that raises when there is one
Callbacks ==
    LET platform == IF wired THEN <<"platform">> ELSE << >>
    IN  CASE raising = "first" -> <<"raises">> \o platform
          [] raising = "last"  -> platform \o <<"raises">>
          [] OTHER             -> platform

\* the loop of _notify_presence_change: an exception of a callback is caught
\* and printed, and the loop goes on
RECURSIVE presence_callbacks_from(_, _, _)
presence_callbacks_from(callbacks, q, user_id) ==
    IF callbacks = << >> THEN q
    ELSE IF Head(callbacks) = "raises"
    THEN presence_callbacks_from(Tail(callbacks), q, user_id)
    ELSE presence_callbacks_from(Tail(callbacks), on_presence_change(q, user_id), user_id)

\* the loop abandoned at the first callback that raises
RECURSIVE presence_callbacks_until_raise(_, _, _)
presence_callbacks_until_raise(callbacks, q, user_id) ==
    IF callbacks = << >> \/ Head(callbacks) = "raises" THEN q
    ELSE presence_callbacks_until_raise(Tail(callbacks), on_presence_change(q, user_id),
                                        user_id)

\* _notify_presence_change without the isolation of a failing callback
_notify_presence_change_unguarded(us, q, user_id) ==
    IF user_id \notin DOMAIN us THEN q
    ELSE presence_callbacks_until_raise(Callbacks, q, user_id)

_notify_presence_change(us, q, user_id) ==
    IF user_id \notin DOMAIN us THEN q
    ELSE presence_callbacks_from(Callbacks, q, user_id)

\* set_user_status that notifies whether or not the status changed
set_user_status_always_notifies(us, q, user_id, status) ==
    IF user_id \notin DOMAIN us
    THEN [users |-> us, queue |-> q, ret |-> FALSE]
    ELSE LET us2 == [us EXCEPT ![user_id].status = status]
         IN  [users |-> us2, queue |-> _notify_presence_change(us2, q, user_id),
              ret |-> TRUE]

set_user_status(us, q, user_id, status) ==
    IF user_id \notin DOMAIN us
    THEN [users |-> us, queue |-> q, ret |-> FALSE]
    ELSE LET old_status == us[user_id].status
             us2 == [us EXCEPT ![user_id].status = status]
         IN  [users |-> us2,
              queue |-> IF old_status # status
                        THEN _notify_presence_change(us2, q, user_id) ELSE q,
              ret   |-> TRUE]

\* create_session without the status write
create_session_keeps_status(us, ss, q, user_id, session_id) ==
    [users |-> us, sessions |-> Put(ss, session_id, user_id), queue |-> q,
     ret |-> session_id]

\* session_id is the uuid4 drawn by the method
create_session(us, ss, q, user_id, session_id) ==
    LET ss2 == Put(ss, session_id, user_id)
        r   == set_user_status(us, q, user_id, ONLINE)
    IN  [users |-> r.users, sessions |-> ss2, queue |-> r.queue, ret |-> session_id]

\* end_session without the check for the user's other sessions
end_session_always_offline(us, ss, q, session_id) ==
    IF session_id \notin DOMAIN ss
    THEN [users |-> us, sessions |-> ss, queue |-> q, ret |-> FALSE]
    ELSE LET r == set_user_status(us, q, ss[session_id], OFFLINE)
         IN  [users |-> r.users, sessions |-> Del(ss, session_id), queue |-> r.queue,
              ret |-> TRUE]

end_session(us, ss, q, session_id) ==
    IF session_id \notin DOMAIN ss
    THEN [users |-> us, sessions |-> ss, queue |-> q, ret |-> FALSE]
    ELSE LET user_id == ss[session_id]
             ss2 == Del(ss, session_id)
             user_sessions == {s \in DOMAIN ss2 : ss2[s] = user_id}
             r == IF user_sessions = {}
                  THEN set_user_status(us, q, user_id, OFFLINE)
                  ELSE [users |-> us, queue |-> q, ret |-> TRUE]
         IN  [users |-> r.users, sessions |-> ss2, queue |-> r.queue, ret |-> TRUE]

\* create_user with the profile built OFFLINE before its session is opened
create_user_offline_profile(us, ss, q, user_data, fresh_id, session_id) ==
    IF user_data.username = Absent
    THEN [users |-> us, sessions |-> ss, queue |-> q, ret |-> "KeyError", user_id |-> None]
    ELSE LET user_id == IF user_data.user_id = Absent THEN fresh_id ELSE user_data.user_id
             r == create_session(Put(us, user_id, [username |-> user_data.username,
                                                   status |-> OFFLINE]),
                                 ss, q, user_id, session_id)
         IN  [users |-> r.users, sessions |-> r.sessions, queue |-> r.queue,
              ret |-> "profile", user_id |-> user_id]

\* create_user that stores the profile and opens no session
create_user_sessionless(us, ss, q, user_data, fresh_id, session_id) ==
    IF user_data.username = Absent
    THEN [users |-> us, sessions |-> ss, queue |-> q, ret |-> "KeyError", user_id |-> None]
    ELSE LET user_id == IF user_data.user_id = Absent THEN fresh_id ELSE user_data.user_id
         IN  [users |-> Put(us, user_id, [username |-> user_data.username,
                                          status |-> ONLINE]),
              sessions |-> ss, queue |-> q, ret |-> "profile", user_id |-> user_id]

\* user_data: [user_id, username], either possibly Absent; fresh_id and
\* session_id are the uuid4 values drawn
create_user(us, ss, q, user_data, fresh_id, session_id) ==
    IF user_data.username = Absent
    THEN [users |-> us, sessions |-> ss, queue |-> q, ret |-> "KeyError", user_id |-> None]
    ELSE LET user_id == IF user_data.user_id = Absent THEN fresh_id ELSE user_data.user_id
             user_profile == [username |-> user_data.username, status |-> ONLINE]
             us2 == Put(us, user_id, user_profile)
             r == create_session(us2, ss, q, user_id, session_id)
         IN  [users |-> r.users, sessions |-> r.sessions, queue |-> r.queue,
              ret |-> "profile", user_id |-> user_id]

\* updates: [username, status], either possibly Absent
update_user(us, q, user_id, updates) ==
    IF user_id \notin DOMAIN us
    THEN [users |-> us, queue |-> q, ret |-> None]
    ELSE LET u1 == IF updates.username = Absent THEN us[user_id]
                   ELSE [us[user_id] EXCEPT !.username = updates.username]
             u2 == IF updates.status = Absent THEN u1
                   ELSE [u1 EXCEPT !.status = updates.status]
             us2 == [us EXCEPT ![user_id] = u2]
         IN  [users |-> us2, queue |-> _notify_presence_change(us2, q, user_id),
              ret |-> "profile"]

get_online_users(us) == {u \in DOMAIN us : us[u].status \in {ONLINE, AWAY, BUSY}}

-----------------------------------------------------------------------------
(* Actions of UserManager *)

\* uuid4 draws an identifier nothing holds yet: the least free one of the pool
Fresh(pool, used) == CHOOSE x \in pool \ used : \A y \in pool \ used : x <= y

FreeUserIds == AccountIds \ DOMAIN users

UserData == [user_id : AccountIds \cup {Absent}, username : Usernames \cup {Absent}]
Updates  == [username : Usernames \cup {Absent}, status : UserStatus \cup {Absent}]

CreateUser ==
    \E user_data \in UserData, fresh_id \in AccountIds :
        /\ user_data.user_id = Absent => fresh_id \in FreeUserIds
        /\ user_data.user_id # Absent => fresh_id = user_data.user_id
        /\ DOMAIN active_sessions # SessionIds
        /\ LET session_id == Fresh(SessionIds, DOMAIN active_sessions)
               r == create_user(users, active_sessions, event_queue,
                                user_data, fresh_id, session_id)
           IN  /\ users' = r.users
               /\ active_sessions' = r.sessions
               /\ event_queue' = r.queue
               /\ last' = Call("create_user", r.user_id, user_data.username, session_id,
                               r.ret)
        /\ Len(event_queue') <= MaxEvents
        /\ UNCHANGED <<connVars, roomVars, msgVars, busVars, wired, raising, joining, clock, status_written, query>>

UpdateUser ==
    \E user_id \in UserIds, updates \in Updates :
        /\ LET r == update_user(users, event_queue, user_id, updates)
           IN  /\ users' = r.users
               /\ event_queue' = r.queue
               /\ last' = Call("update_user", user_id, None, NoId, r.ret)
        /\ status_written' = TRUE
        /\ Len(event_queue') <= MaxEvents
        /\ UNCHANGED <<active_sessions, connVars, roomVars, msgVars, busVars, wired, raising, joining, clock,
                       query>>

SetUserStatus ==
    \E user_id \in UserIds, status \in UserStatus :
        /\ LET r == set_user_status(users, event_queue, user_id, status)
           IN  /\ users' = r.users
               /\ event_queue' = r.queue
               /\ last' = Call("set_user_status", user_id, status, NoId, Bool(r.ret))
        /\ status_written' = TRUE
        /\ Len(event_queue') <= MaxEvents
        /\ UNCHANGED <<active_sessions, connVars, roomVars, msgVars, busVars, wired, raising, joining, clock,
                       query>>

CreateSession ==
    \E user_id \in UserIds :
        /\ DOMAIN active_sessions # SessionIds
        /\ LET session_id == Fresh(SessionIds, DOMAIN active_sessions)
               r == create_session(users, active_sessions, event_queue, user_id, session_id)
           IN  /\ users' = r.users
               /\ active_sessions' = r.sessions
               /\ event_queue' = r.queue
               /\ last' = Call("create_session", user_id, None, session_id, "session")
        /\ Len(event_queue') <= MaxEvents
        /\ UNCHANGED <<connVars, roomVars, msgVars, busVars, wired, raising, joining, clock, status_written, query>>

EndSession ==
    \E session_id \in SessionIds :
        /\ LET r == end_session(users, active_sessions, event_queue, session_id)
           IN  /\ users' = r.users
               /\ active_sessions' = r.sessions
               /\ event_queue' = r.queue
               /\ last' = Call("end_session", Get(active_sessions, session_id, None), None,
                               session_id, Bool(r.ret))
        /\ Len(event_queue') <= MaxEvents
        /\ UNCHANGED <<connVars, roomVars, msgVars, busVars, wired, raising, joining, clock, status_written, query>>

-----------------------------------------------------------------------------
(* ConnectionManager.  cs is connections, uc is user_connections. *)

SocialConnection(user_id, target_user_id, connection_type, mutual) ==
    [user_id |-> user_id, target_user_id |-> target_user_id,
     connection_type |-> connection_type, mutual |-> mutual]

\* get_connection that compares the target with the edge's source
get_connection_by_source(cs, uc, user_id, target_user_id) ==
    LET found == {c \in Get(uc, user_id, {}) :
                    c \in DOMAIN cs /\ cs[c].user_id = target_user_id}
    IN  IF found = {} THEN {NoId} ELSE found

\* get_connection returns the first edge to the target that the iteration over
\* the user's set of connection ids meets.  The order of a Python set of uuid
\* strings is arbitrary, so every such edge is a possible result; with none
\* the result is None (NoId).
get_connection(cs, uc, user_id, target_user_id) ==
    LET found == {c \in Get(uc, user_id, {}) :
                    c \in DOMAIN cs /\ cs[c].target_user_id = target_user_id}
    IN  IF found = {} THEN {NoId} ELSE found

\* create_connection that leaves the new edge out of the user's index
create_connection_unindexed(cs, uc, user_id, target_user_id, connection_type, connection_id, reverse_connection) ==
    LET matches == /\ reverse_connection # NoId
                   /\ cs[reverse_connection].connection_type = connection_type
        cs1 == IF matches THEN [cs EXCEPT ![reverse_connection].mutual = TRUE] ELSE cs
    IN  [connections |-> Put(cs1, connection_id,
                             SocialConnection(user_id, target_user_id,
                                              connection_type, matches)),
         user_connections |-> uc,
         ret |-> connection_id]

\* connection_id is the uuid4 drawn; reverse_connection is what
\* get_connection(target_user_id, user_id) returned
create_connection(cs, uc, user_id, target_user_id, connection_type, connection_id, reverse_connection) ==
    LET matches == /\ reverse_connection # NoId
                   /\ cs[reverse_connection].connection_type = connection_type
        cs1 == IF matches THEN [cs EXCEPT ![reverse_connection].mutual = TRUE] ELSE cs
        connection == SocialConnection(user_id, target_user_id, connection_type, matches)
    IN  [connections |-> Put(cs1, connection_id, connection),
         user_connections |-> Put(uc, user_id, Get(uc, user_id, {}) \cup {connection_id}),
         ret |-> connection_id]

get_user_connections(cs, uc, user_id, connection_type) ==
    {c \in Get(uc, user_id, {}) :
        /\ c \in DOMAIN cs
        /\ connection_type = None \/ cs[c].connection_type = connection_type}

\* the targets of the FRIEND edges of a user
FriendTargets(cs, uc, user_id) ==
    {cs[c].target_user_id : c \in get_user_connections(cs, uc, user_id, FRIEND)}

\* the inner loop of suggest_connections over one friend's FRIEND edges, in the
\* order friend_connections lists them
RECURSIVE scan_friend_connections(_, _, _, _, _)
scan_friend_connections(cs, user_id, user_friends, friend_connections, suggestions) ==
    IF friend_connections = << >> THEN suggestions
    ELSE LET potential_friend == cs[Head(friend_connections)].target_user_id
             appended ==
                 IF /\ potential_friend # user_id
                    /\ potential_friend \notin user_friends
                    /\ ~(\E i \in DOMAIN suggestions : suggestions[i] = potential_friend)
                 THEN Append(suggestions, potential_friend) ELSE suggestions
         IN  scan_friend_connections(cs, user_id, user_friends,
                                     Tail(friend_connections), appended)

\* the outer loop over the set user_friends: every order of iteration of the
\* set, and of each friend's set of connection ids, gives one list
RECURSIVE suggestions_from(_, _, _, _, _, _)
suggestions_from(cs, uc, user_id, user_friends, friends_left, suggestions) ==
    IF friends_left = {} THEN {suggestions}
    ELSE UNION {
           UNION {
             suggestions_from(cs, uc, user_id, user_friends, friends_left \ {friend_id},
                              scan_friend_connections(cs, user_id, user_friends,
                                                      friend_connections, suggestions))
             : friend_connections \in
                 {o \in [1..Cardinality(get_user_connections(cs, uc, friend_id, FRIEND))
                           -> get_user_connections(cs, uc, friend_id, FRIEND)] :
                      \A i, j \in DOMAIN o : o[i] = o[j] => i = j} }
           : friend_id \in friends_left }

\* suggest_connections that returns the whole list, whatever the limit
suggest_connections_untruncated(cs, uc, user_id, limit) ==
    LET user_friends == FriendTargets(cs, uc, user_id)
    IN  suggestions_from(cs, uc, user_id, user_friends, user_friends, << >>)

\* the lists suggest_connections can return: suggestions[:limit], limit >= 0
suggest_connections(cs, uc, user_id, limit) ==
    LET user_friends == FriendTargets(cs, uc, user_id)
    IN  {SubSeq(suggestions, 1, IF Len(suggestions) <= limit THEN Len(suggestions) ELSE limit)
            : suggestions \in suggestions_from(cs, uc, user_id, user_friends, user_friends,
                                                << >>)}

\* remove_connection that also clears the mutual flag of the reverse edges
remove_connection_clears_mutual(cs, uc, connection_id) ==
    IF connection_id \notin DOMAIN cs
    THEN [connections |-> cs, user_connections |-> uc, ret |-> FALSE]
    ELSE LET user_id == cs[connection_id].user_id
             target_user_id == cs[connection_id].target_user_id
             cs1 == [c \in DOMAIN cs |->
                        IF cs[c].user_id = target_user_id /\ cs[c].target_user_id = user_id
                        THEN [cs[c] EXCEPT !.mutual = FALSE] ELSE cs[c]]
         IN  [connections |-> Del(cs1, connection_id),
              user_connections |->
                  IF user_id \in DOMAIN uc
                  THEN [uc EXCEPT ![user_id] = @ \ {connection_id}] ELSE uc,
              ret |-> TRUE]

remove_connection(cs, uc, connection_id) ==
    IF connection_id \notin DOMAIN cs
    THEN [connections |-> cs, user_connections |-> uc, ret |-> FALSE]
    ELSE LET user_id == cs[connection_id].user_id
         IN  [connections |-> Del(cs, connection_id),
              user_connections |->
                  IF user_id \in DOMAIN uc
                  THEN [uc EXCEPT ![user_id] = @ \ {connection_id}] ELSE uc,
              ret |-> TRUE]

-----------------------------------------------------------------------------
(* Actions of ConnectionManager *)

\* the connection types and the endpoints the calls of the model pass
TypesPassed == {FRIEND, FOLLOWER}
Endpoints   == AccountIds

CreateConnection ==
    \E user_id \in Endpoints, target_user_id \in Endpoints, connection_type \in TypesPassed :
        /\ DOMAIN connections # ConnectionIds
        /\ \E reverse_connection \in
                get_connection(connections, user_connections, target_user_id, user_id) :
             LET connection_id == Fresh(ConnectionIds, DOMAIN connections)
                 r == create_connection(connections, user_connections, user_id,
                                        target_user_id, connection_type,
                                        connection_id, reverse_connection)
             IN  /\ connections' = r.connections
                 /\ user_connections' = r.user_connections
                 /\ last' = Call("create_connection", user_id, target_user_id, r.ret, "connection")
        /\ UNCHANGED <<userVars, roomVars, msgVars, busVars, event_queue, wired, raising, joining, clock, status_written, query>>

\* create_connection between any two users, registered or not
CreateConnectionAnyUser ==
    \E user_id \in UserIds, target_user_id \in UserIds, connection_type \in TypesPassed :
        /\ DOMAIN connections # ConnectionIds
        /\ \E reverse_connection \in
                get_connection(connections, user_connections, target_user_id, user_id) :
             LET connection_id == Fresh(ConnectionIds, DOMAIN connections)
                 r == create_connection(connections, user_connections, user_id,
                                        target_user_id, connection_type,
                                        connection_id, reverse_connection)
             IN  /\ connections' = r.connections
                 /\ user_connections' = r.user_connections
                 /\ last' = Call("create_connection", user_id, target_user_id, r.ret, "connection")
        /\ UNCHANGED <<userVars, roomVars, msgVars, busVars, event_queue, wired, raising, joining, clock, status_written, query>>

RemoveConnection ==
    \E connection_id \in ConnectionIds :
        /\ LET r == remove_connection(connections, user_connections, connection_id)
           IN  /\ connections' = r.connections
               /\ user_connections' = r.user_connections
               /\ last' = Call("remove_connection", None, None, connection_id, Bool(r.ret))
        /\ UNCHANGED <<userVars, roomVars, msgVars, busVars, event_queue, wired, raising, joining, clock, status_written, query>>

SuggestConnections ==
    \E user_id \in AccountIds, limit \in Limits :
        \E result \in suggest_connections(connections, user_connections, user_id, limit) :
            /\ query' = Query("suggest_connections", user_id, limit, NoTimestamp, result)
            /\ last' = Call("suggest_connections", user_id, None, NoId, "list")
            /\ UNCHANGED <<userVars, connVars, roomVars, msgVars, busVars, event_queue,
                           wired, raising, joining, clock, status_written>>

-----------------------------------------------------------------------------
(* RoomManager.  rs is rooms, ur is user_rooms, q the event history. *)

DefaultCapacity == 50

SocialRoom(room_type, owner_id, capacity) ==
    [room_type |-> room_type, owner_id |-> owner_id, capacity |-> capacity,
     current_users |-> {}, moderators |-> {}]

\* the loop of _notify_room_event, with its try/except
RECURSIVE room_callbacks_from(_, _, _, _, _)
room_callbacks_from(callbacks, q, event_type, room_id, user_id) ==
    IF callbacks = << >> THEN q
    ELSE IF Head(callbacks) = "raises"
    THEN room_callbacks_from(Tail(callbacks), q, event_type, room_id, user_id)
    ELSE room_callbacks_from(Tail(callbacks),
                             on_room_event(q, event_type, room_id, user_id),
                             event_type, room_id, user_id)

_notify_room_event(q, event_type, room_id, user_id) ==
    room_callbacks_from(Callbacks, q, event_type, room_id, user_id)

\* room_data: [room_id, name, room_type, owner_id], each possibly Absent, and
\* capacity, which is room_data.get("capacity", 50): a room_data without
\* capacity is the one with capacity 50.  fresh_id is the uuid4 drawn when
\* room_data holds no room_id.  The constructor's arguments are evaluated in
\* order: name, room_type, owner_id.
create_room(rs, room_data, fresh_id) ==
    IF room_data.name = Absent THEN [rooms |-> rs, ret |-> "KeyError", room_id |-> None]
    ELSE IF room_data.room_type \notin RoomType \cup {Absent}
    THEN [rooms |-> rs, ret |-> "ValueError", room_id |-> None]
    ELSE IF room_data.owner_id = Absent
    THEN [rooms |-> rs, ret |-> "KeyError", room_id |-> None]
    ELSE LET room_id == IF room_data.room_id = Absent THEN fresh_id ELSE room_data.room_id
             room == SocialRoom(
                        IF room_data.room_type = Absent THEN PUBLIC ELSE room_data.room_type,
                        room_data.owner_id,
                        room_data.capacity)
         IN  [rooms |-> Put(rs, room_id, [room EXCEPT !.moderators = {room.owner_id}]),
              ret |-> "room", room_id |-> room_id]

\* join_room with the capacity check off by one
join_room_off_by_one(rs, ur, q, room_id, user_id) ==
    IF room_id \notin DOMAIN rs
    THEN [rooms |-> rs, user_rooms |-> ur, queue |-> q, ret |-> FALSE]
    ELSE IF Cardinality(rs[room_id].current_users) > rs[room_id].capacity
    THEN [rooms |-> rs, user_rooms |-> ur, queue |-> q, ret |-> FALSE]
    ELSE [rooms |-> [rs EXCEPT ![room_id].current_users = @ \cup {user_id}],
          user_rooms |-> Put(ur, user_id, Get(ur, user_id, {}) \cup {room_id}),
          queue |-> _notify_room_event(q, "user_joined", room_id, user_id),
          ret |-> TRUE]

join_room(rs, ur, q, room_id, user_id) ==
    IF room_id \notin DOMAIN rs
    THEN [rooms |-> rs, user_rooms |-> ur, queue |-> q, ret |-> FALSE]
    ELSE IF Cardinality(rs[room_id].current_users) >= rs[room_id].capacity
    THEN [rooms |-> rs, user_rooms |-> ur, queue |-> q, ret |-> FALSE]
    ELSE [rooms |-> [rs EXCEPT ![room_id].current_users = @ \cup {user_id}],
          user_rooms |-> Put(ur, user_id, Get(ur, user_id, {}) \cup {room_id}),
          queue |-> _notify_room_event(q, "user_joined", room_id, user_id),
          ret |-> TRUE]

\* a join_room call suspended at line 491: what the coroutine still holds
JoinCall(call, room_id, user_id) == [call |-> call, room_id |-> room_id, user_id |-> user_id]

\* the first segment of join_room with a capacity check that does not see the
\* members whose own call is still suspended, as if each call had been
\* suspended between its check and its insertion
join_room_until_await_stale(rs, ur, room_id, user_id) ==
    IF room_id \notin DOMAIN rs
    THEN [rooms |-> rs, user_rooms |-> ur, awaits |-> FALSE]
    ELSE IF Cardinality(rs[room_id].current_users
                        \ {t.user_id : t \in {c \in joining : c.room_id = room_id}})
            >= rs[room_id].capacity
    THEN [rooms |-> rs, user_rooms |-> ur, awaits |-> FALSE]
    ELSE [rooms |-> [rs EXCEPT ![room_id].current_users = @ \cup {user_id}],
          user_rooms |-> Put(ur, user_id, Get(ur, user_id, {}) \cup {room_id}),
          awaits |-> TRUE]

\* join_room from its entry to its only await (lines 474-488): the lookup, the
\* capacity check, the insertion and the index update run with no await among
\* them; awaits is FALSE when the call returned False before reaching line 491
join_room_until_await(rs, ur, room_id, user_id) ==
    IF room_id \notin DOMAIN rs
    THEN [rooms |-> rs, user_rooms |-> ur, awaits |-> FALSE]
    ELSE IF Cardinality(rs[room_id].current_users) >= rs[room_id].capacity
    THEN [rooms |-> rs, user_rooms |-> ur, awaits |-> FALSE]
    ELSE [rooms |-> [rs EXCEPT ![room_id].current_users = @ \cup {user_id}],
          user_rooms |-> Put(ur, user_id, Get(ur, user_id, {}) \cup {room_id}),
          awaits |-> TRUE]

\* join_room from its await to its return (lines 491-493): the callbacks run
\* and the call returns True
join_room_after_await(q, room_id, user_id) ==
    _notify_room_event(q, "user_joined", room_id, user_id)

\* leave_room without the deletion of an emptied temporary room
leave_room_no_cascade(rs, ur, q, room_id, user_id) ==
    IF room_id \notin DOMAIN rs \/ user_id \notin rs[room_id].current_users
    THEN [rooms |-> rs, user_rooms |-> ur, queue |-> q, ret |-> FALSE]
    ELSE [rooms |-> [rs EXCEPT ![room_id].current_users = @ \ {user_id},
                               ![room_id].moderators = @ \ {user_id}],
          user_rooms |-> IF user_id \in DOMAIN ur
                         THEN [ur EXCEPT ![user_id] = @ \ {room_id}] ELSE ur,
          queue |-> _notify_room_event(q, "user_left", room_id, user_id),
          ret |-> TRUE]

RECURSIVE leave_room(_, _, _, _, _)
RECURSIVE delete_room(_, _, _, _, _)

\* leave_room that leaves the user among the moderators
leave_room_keeps_moderator(rs, ur, q, room_id, user_id) ==
    IF room_id \notin DOMAIN rs \/ user_id \notin rs[room_id].current_users
    THEN [rooms |-> rs, user_rooms |-> ur, queue |-> q, ret |-> FALSE]
    ELSE LET rs1 == [rs EXCEPT ![room_id].current_users = @ \ {user_id}]
             ur1 == IF user_id \in DOMAIN ur
                    THEN [ur EXCEPT ![user_id] = @ \ {room_id}] ELSE ur
             q1  == _notify_room_event(q, "user_left", room_id, user_id)
         IN  IF rs1[room_id].room_type = TEMPORARY /\ rs1[room_id].current_users = {}
             THEN LET d == delete_room(rs1, ur1, q1, room_id, << >>)
                  IN  [rooms |-> d.rooms, user_rooms |-> d.user_rooms,
                       queue |-> d.queue, ret |-> TRUE]
             ELSE [rooms |-> rs1, user_rooms |-> ur1, queue |-> q1, ret |-> TRUE]

leave_room(rs, ur, q, room_id, user_id) ==
    IF room_id \notin DOMAIN rs \/ user_id \notin rs[room_id].current_users
    THEN [rooms |-> rs, user_rooms |-> ur, queue |-> q, ret |-> FALSE]
    ELSE LET rs1 == [rs EXCEPT ![room_id].current_users = @ \ {user_id},
                                ![room_id].moderators = @ \ {user_id}]
             ur1 == IF user_id \in DOMAIN ur
                    THEN [ur EXCEPT ![user_id] = @ \ {room_id}] ELSE ur
             q1  == _notify_room_event(q, "user_left", room_id, user_id)
         IN  IF rs1[room_id].room_type = TEMPORARY /\ rs1[room_id].current_users = {}
             THEN LET d == delete_room(rs1, ur1, q1, room_id, << >>)
                  IN  [rooms |-> d.rooms, user_rooms |-> d.user_rooms,
                       queue |-> d.queue, ret |-> TRUE]
             ELSE [rooms |-> rs1, user_rooms |-> ur1, queue |-> q1, ret |-> TRUE]

\* The loop of delete_room over list(room.current_users): members lists the
\* users still to be removed, in the order the set's iteration gave.  After
\* the loop `del self.rooms[room_id]` raises KeyError when the room is gone.
delete_room(rs, ur, q, room_id, members) ==
    IF room_id \notin DOMAIN rs
    THEN [rooms |-> rs, user_rooms |-> ur, queue |-> q, ret |-> "False"]
    ELSE IF members # << >>
    THEN LET l == leave_room(rs, ur, q, room_id, Head(members))
         IN  IF room_id \in DOMAIN l.rooms
             THEN delete_room(l.rooms, l.user_rooms, l.queue, room_id, Tail(members))
             ELSE \* the remaining leave_room calls find no room and return False
                  [rooms |-> l.rooms, user_rooms |-> l.user_rooms, queue |-> l.queue,
                   ret |-> "KeyError"]
    ELSE [rooms |-> Del(rs, room_id), user_rooms |-> ur, queue |-> q, ret |-> "True"]

\* add_moderator that accepts a requester only from the moderator set
add_moderator_moderators_only(rs, room_id, user_id, moderator_id) ==
    IF room_id \notin DOMAIN rs THEN [rooms |-> rs, ret |-> FALSE]
    ELSE IF moderator_id \notin rs[room_id].moderators
    THEN [rooms |-> rs, ret |-> FALSE]
    ELSE [rooms |-> [rs EXCEPT ![room_id].moderators = @ \cup {user_id}], ret |-> TRUE]

add_moderator(rs, room_id, user_id, moderator_id) ==
    IF room_id \notin DOMAIN rs THEN [rooms |-> rs, ret |-> FALSE]
    ELSE IF moderator_id # rs[room_id].owner_id /\ moderator_id \notin rs[room_id].moderators
    THEN [rooms |-> rs, ret |-> FALSE]
    ELSE [rooms |-> [rs EXCEPT ![room_id].moderators = @ \cup {user_id}], ret |-> TRUE]

-----------------------------------------------------------------------------
(* Actions of RoomManager *)

\* the orders in which a set can be iterated
Orders(S) == {o \in [1..Cardinality(S) -> S] : \A i, j \in DOMAIN o : o[i] = o[j] => i = j}

\* what the calls of the model pass: every well-formed room_data, and one
\* room_data for each way of being ill-formed or of leaving room_type out
RoomTypesPassed == {PUBLIC, TEMPORARY}
GoodRoomData ==
    [room_id   : RoomIds \cup {Absent},
     name      : {"Creative Lounge"},
     room_type : RoomTypesPassed,
     owner_id  : AccountIds,
     capacity  : (0..MaxCapacity) \cup {DefaultCapacity}]
PlainRoomData ==
    [room_id |-> Absent, name |-> "Creative Lounge", room_type |-> PUBLIC,
     owner_id |-> "alice", capacity |-> DefaultCapacity]
RoomData ==
    GoodRoomData \cup {[PlainRoomData EXCEPT !.name = Absent],
                       [PlainRoomData EXCEPT !.owner_id = Absent],
                       [PlainRoomData EXCEPT !.room_type = Absent],
                       [PlainRoomData EXCEPT !.room_type = "bogus"]}

CreateRoom ==
    \E room_data \in RoomData :
        /\ room_data.room_id = Absent => DOMAIN rooms # RoomIds
        /\ LET fresh_id == IF DOMAIN rooms # RoomIds
                           THEN CHOOSE x \in RoomIds \ DOMAIN rooms : TRUE ELSE None
               r == create_room(rooms, room_data, fresh_id)
           IN  /\ rooms' = r.rooms
               /\ last' = Call("create_room", r.room_id, None, NoId, r.ret)
        /\ UNCHANGED <<userVars, connVars, user_rooms, msgVars, busVars, event_queue,
                       wired, raising, joining, clock, status_written, query>>

JoinRoom ==
    \E room_id \in RoomIds, user_id \in UserIds :
        /\ LET r == join_room(rooms, user_rooms, event_queue, room_id, user_id)
           IN  /\ rooms' = r.rooms
               /\ user_rooms' = r.user_rooms
               /\ event_queue' = r.queue
               /\ last' = Call("join_room", room_id, user_id, NoId, Bool(r.ret))
        /\ Len(event_queue') <= MaxEvents
        /\ UNCHANGED <<userVars, connVars, msgVars, busVars, wired, raising, joining, clock, status_written, query>>

\* a join_room call is started and runs until it returns False or reaches its
\* await, where other calls may run before it is resumed
JoinRoomCall ==
    \E room_id \in RoomIds, user_id \in UserIds :
        /\ LET r == join_room_until_await(rooms, user_rooms, room_id, user_id)
               call == IF Cardinality(joining) < MaxJoining
                       THEN Fresh(JoinCalls, {t.call : t \in joining}) ELSE NoId
           IN  /\ rooms' = r.rooms
               /\ user_rooms' = r.user_rooms
               /\ joining' = IF r.awaits
                             THEN joining \cup {JoinCall(call, room_id, user_id)}
                             ELSE joining
               /\ last' = Call("join_room", room_id, user_id,
                               IF r.awaits THEN call ELSE NoId,
                               IF r.awaits THEN "suspended" ELSE "False")
        /\ Cardinality(joining') <= MaxJoining
        /\ UNCHANGED <<userVars, connVars, msgVars, busVars, event_queue, wired, raising, clock, status_written, query>>

\* a suspended join_room call is resumed: its callbacks run and it returns True
JoinRoomResume ==
    \E t \in joining :
        /\ event_queue' = join_room_after_await(event_queue, t.room_id, t.user_id)
        /\ Len(event_queue') <= MaxEvents
        /\ joining' = joining \ {t}
        /\ last' = Call("join_room", t.room_id, t.user_id, t.call, "True")
        /\ UNCHANGED <<userVars, connVars, roomVars, msgVars, busVars, wired, raising, clock, status_written, query>>

LeaveRoom ==
    \E room_id \in RoomIds, user_id \in UserIds :
        /\ LET r == leave_room(rooms, user_rooms, event_queue, room_id, user_id)
           IN  /\ rooms' = r.rooms
               /\ user_rooms' = r.user_rooms
               /\ event_queue' = r.queue
               /\ last' = Call("leave_room", room_id, user_id, NoId, Bool(r.ret))
        /\ Len(event_queue') <= MaxEvents
        /\ UNCHANGED <<userVars, connVars, msgVars, busVars, wired, raising, joining, clock, status_written, query>>

DeleteRoom ==
    \E room_id \in RoomIds :
        \E members \in Orders(IF room_id \in DOMAIN rooms
                              THEN rooms[room_id].current_users ELSE {}) :
            /\ LET r == delete_room(rooms, user_rooms, event_queue, room_id, members)
               IN  /\ rooms' = r.rooms
                   /\ user_rooms' = r.user_rooms
                   /\ event_queue' = r.queue
                   /\ last' = Call("delete_room", room_id, None, NoId, r.ret)
            /\ Len(event_queue') <= MaxEvents
            /\ UNCHANGED <<userVars, connVars, msgVars, busVars, wired, raising, joining, clock, status_written, query>>

AddModerator ==
    \E room_id \in RoomIds, user_id \in UserIds, moderator_id \in UserIds :
        /\ LET r == add_moderator(rooms, room_id, user_id, moderator_id)
           IN  /\ rooms' = r.rooms
               /\ last' = Call3("add_moderator", room_id, user_id, moderator_id, NoId,
                                Bool(r.ret))
        /\ UNCHANGED <<userVars, connVars, user_rooms, msgVars, busVars, event_queue,
                       wired, raising, joining, clock, status_written, query>>

-----------------------------------------------------------------------------
(* MessageManager.  ms is messages, rm is room_messages, um is user_messages. *)

Message(sender_id, room_id, recipient_id, content, timestamp) ==
    [sender_id |-> sender_id, room_id |-> room_id, recipient_id |-> recipient_id,
     content |-> content, reactions |-> EmptyDict, timestamp |-> timestamp,
     edited_at |-> NoId]

\* the loop of _notify_message_event, with its try/except
RECURSIVE message_callbacks_from(_, _, _, _)
message_callbacks_from(callbacks, q, event_type, message) ==
    IF callbacks = << >> THEN q
    ELSE IF Head(callbacks) = "raises"
    THEN message_callbacks_from(Tail(callbacks), q, event_type, message)
    ELSE message_callbacks_from(Tail(callbacks),
                                on_message_event(q, event_type, message),
                                event_type, message)

_notify_message_event(q, event_type, message) ==
    message_callbacks_from(Callbacks, q, event_type, message)

\* list.remove(x): the list without its first x
RECURSIVE Remove(_, _)
Remove(list, x) ==
    IF list = << >> THEN << >>
    ELSE IF Head(list) = x THEN Tail(list)
    ELSE <<Head(list)>> \o Remove(Tail(list), x)

Contains(list, x) == \E i \in DOMAIN list : list[i] = x

\* message_data: [sender_id, room_id, recipient_id, content]; an Absent room_id
\* or recipient_id reads as None (dict.get), an Absent sender_id raises.
\* message_id is the uuid4 drawn, now the reading of time.time().
send_message(ms, rm, um, q, message_data, message_id, now) ==
    IF message_data.sender_id = Absent
    THEN [messages |-> ms, room_messages |-> rm, user_messages |-> um, queue |-> q,
          ret |-> "KeyError"]
    ELSE LET message == Message(message_data.sender_id,
                                IF message_data.room_id = Absent THEN None
                                ELSE message_data.room_id,
                                IF message_data.recipient_id = Absent THEN None
                                ELSE message_data.recipient_id,
                                message_data.content, now)
             rm1 == IF message.room_id # None
                    THEN Put(rm, message.room_id,
                             Append(Get(rm, message.room_id, << >>), message_id))
                    ELSE rm
             um1 == IF message.recipient_id # None
                    THEN Put(um, message.recipient_id,
                             Append(Get(um, message.recipient_id, << >>), message_id))
                    ELSE um
         IN  [messages |-> Put(ms, message_id, message),
              room_messages |-> rm1, user_messages |-> um1,
              queue |-> _notify_message_event(q, "message_sent", message),
              ret |-> "message"]

\* the loop of get_room_messages over reversed(message_ids), from position i
\* downwards, with the messages collected so far (by their ids); a
\* before_timestamp of None or 0 is falsy and filters nothing
RECURSIVE room_messages_from(_, _, _, _, _, _)
room_messages_from(ms, message_ids, limit, before_timestamp, i, collected) ==
    IF i = 0 THEN collected
    ELSE LET message_id == message_ids[i]
         IN  IF message_id \notin DOMAIN ms
             THEN room_messages_from(ms, message_ids, limit, before_timestamp, i - 1,
                                     collected)
             ELSE IF /\ before_timestamp # NoTimestamp
                     /\ before_timestamp # 0
                     /\ ms[message_id].timestamp >= before_timestamp
             THEN room_messages_from(ms, message_ids, limit, before_timestamp, i - 1,
                                     collected)
             ELSE LET appended == Append(collected, message_id)
                  IN  IF Len(appended) >= limit THEN appended
                      ELSE room_messages_from(ms, message_ids, limit, before_timestamp,
                                              i - 1, appended)

get_room_messages(ms, rm, room_id, limit, before_timestamp) ==
    LET message_ids == Get(rm, room_id, << >>)
    IN  room_messages_from(ms, message_ids, limit, before_timestamp,
                           Len(message_ids), << >>)

add_reaction(ms, q, message_id, user_id, emoji) ==
    IF message_id \notin DOMAIN ms THEN [messages |-> ms, queue |-> q, ret |-> FALSE]
    ELSE LET reactions == ms[message_id].reactions
             r1 == IF emoji \notin DOMAIN reactions THEN Put(reactions, emoji, << >>)
                   ELSE reactions
             r2 == IF ~Contains(r1[emoji], user_id)
                   THEN [r1 EXCEPT ![emoji] = Append(@, user_id)] ELSE r1
             ms1 == [ms EXCEPT ![message_id].reactions = r2]
         IN  [messages |-> ms1,
              queue |-> _notify_message_event(q, "reaction_added", ms1[message_id]),
              ret |-> TRUE]

\* remove_reaction that leaves the emptied list in the map
remove_reaction_keeps_key(ms, q, message_id, user_id, emoji) ==
    IF message_id \notin DOMAIN ms THEN [messages |-> ms, queue |-> q, ret |-> FALSE]
    ELSE LET reactions == ms[message_id].reactions
         IN  IF emoji \in DOMAIN reactions /\ Contains(reactions[emoji], user_id)
             THEN LET ms1 == [ms EXCEPT ![message_id].reactions =
                                 [reactions EXCEPT ![emoji] = Remove(@, user_id)]]
                  IN  [messages |-> ms1,
                       queue |-> _notify_message_event(q, "reaction_removed",
                                                       ms1[message_id]),
                       ret |-> TRUE]
             ELSE [messages |-> ms, queue |-> q, ret |-> FALSE]

remove_reaction(ms, q, message_id, user_id, emoji) ==
    IF message_id \notin DOMAIN ms THEN [messages |-> ms, queue |-> q, ret |-> FALSE]
    ELSE LET reactions == ms[message_id].reactions
         IN  IF emoji \in DOMAIN reactions /\ Contains(reactions[emoji], user_id)
             THEN LET r1 == [reactions EXCEPT ![emoji] = Remove(@, user_id)]
                      r2 == IF r1[emoji] = << >> THEN Del(r1, emoji) ELSE r1
                      ms1 == [ms EXCEPT ![message_id].reactions = r2]
                  IN  [messages |-> ms1,
                       queue |-> _notify_message_event(q, "reaction_removed",
                                                       ms1[message_id]),
                       ret |-> TRUE]
             ELSE [messages |-> ms, queue |-> q, ret |-> FALSE]

\* edit_message without the check of the requester
edit_message_any_requester(ms, q, message_id, new_content, user_id, now) ==
    IF message_id \notin DOMAIN ms THEN [messages |-> ms, queue |-> q, ret |-> FALSE]
    ELSE LET ms1 == [ms EXCEPT ![message_id].content = new_content,
                               ![message_id].edited_at = now]
         IN  [messages |-> ms1,
              queue |-> _notify_message_event(q, "message_edited", ms1[message_id]),
              ret |-> TRUE]

edit_message(ms, q, message_id, new_content, user_id, now) ==
    IF message_id \notin DOMAIN ms \/ ms[message_id].sender_id # user_id
    THEN [messages |-> ms, queue |-> q, ret |-> FALSE]
    ELSE LET ms1 == [ms EXCEPT ![message_id].content = new_content,
                               ![message_id].edited_at = now]
         IN  [messages |-> ms1,
              queue |-> _notify_message_event(q, "message_edited", ms1[message_id]),
              ret |-> TRUE]

delete_message(ms, rm, um, q, message_id, user_id) ==
    IF message_id \notin DOMAIN ms \/ ms[message_id].sender_id # user_id
    THEN [messages |-> ms, room_messages |-> rm, user_messages |-> um, queue |-> q,
          ret |-> FALSE]
    ELSE LET message == ms[message_id]
             rm1 == IF message.room_id # None /\ message.room_id \in DOMAIN rm
                    THEN [rm EXCEPT ![message.room_id] = Remove(@, message_id)] ELSE rm
             um1 == IF message.recipient_id # None /\ message.recipient_id \in DOMAIN um
                    THEN [um EXCEPT ![message.recipient_id] = Remove(@, message_id)]
                    ELSE um
         IN  [messages |-> Del(ms, message_id), room_messages |-> rm1,
              user_messages |-> um1,
              queue |-> _notify_message_event(q, "message_deleted", message),
              ret |-> TRUE]

-----------------------------------------------------------------------------
(* Actions of MessageManager *)

\* what the calls of the model pass
Recipients == {"bob"}
Reactors   == AccountIds
MessageData ==
    [sender_id    : AccountIds \cup {Absent},
     room_id      : RoomIds \cup {Absent},
     recipient_id : Recipients \cup {Absent},
     content      : {"hello"}]

SendMessage ==
    \E message_data \in MessageData :
        /\ DOMAIN messages # MessageIds
        /\ clock < MaxClock
        /\ LET message_id == Fresh(MessageIds, DOMAIN messages)
               r == send_message(messages, room_messages, user_messages, event_queue,
                                 message_data, message_id, clock + 1)
           IN  /\ messages' = r.messages
               /\ room_messages' = r.room_messages
               /\ user_messages' = r.user_messages
               /\ event_queue' = r.queue
               /\ clock' = IF r.ret = "message" THEN clock + 1 ELSE clock
               /\ last' = Call("send_message", message_data.sender_id,
                               message_data.room_id,
                               IF r.ret = "message" THEN message_id ELSE NoId, r.ret)
        /\ Len(event_queue') <= MaxEvents
        /\ UNCHANGED <<userVars, connVars, roomVars, busVars, wired, raising, joining, status_written, query>>

\* the before_timestamp values the reads of the model pass
Timestamps == {NoTimestamp} \cup (0..MaxClock + 1)

GetRoomMessages ==
    \E room_id \in RoomIds, limit \in Limits, before_timestamp \in Timestamps :
        /\ query' = Query("get_room_messages", room_id, limit, before_timestamp,
                          get_room_messages(messages, room_messages, room_id, limit,
                                            before_timestamp))
        /\ last' = Call("get_room_messages", room_id, None, NoId, "list")
        /\ UNCHANGED <<userVars, connVars, roomVars, msgVars, busVars, event_queue,
                       wired, raising, joining, clock, status_written>>

EditMessage ==
    \E message_id \in MessageIds, new_content \in Contents, user_id \in UserIds :
        /\ clock < MaxClock
        /\ LET r == edit_message(messages, event_queue, message_id, new_content,
                                 user_id, clock + 1)
           IN  /\ messages' = r.messages
               /\ event_queue' = r.queue
               /\ clock' = IF r.ret THEN clock + 1 ELSE clock
               /\ last' = Call("edit_message", user_id, new_content, message_id,
                               Bool(r.ret))
        /\ Len(event_queue') <= MaxEvents
        /\ UNCHANGED <<userVars, connVars, roomVars, room_messages, user_messages,
                       busVars, wired, raising, joining, status_written, query>>

DeleteMessage ==
    \E message_id \in MessageIds, user_id \in UserIds :
        /\ LET r == delete_message(messages, room_messages, user_messages, event_queue,
                                   message_id, user_id)
           IN  /\ messages' = r.messages
               /\ room_messages' = r.room_messages
               /\ user_messages' = r.user_messages
               /\ event_queue' = r.queue
               /\ last' = Call("delete_message", user_id, None, message_id, Bool(r.ret))
        /\ Len(event_queue') <= MaxEvents
        /\ UNCHANGED <<userVars, connVars, roomVars, busVars, wired, raising, joining, clock, status_written, query>>

AddReaction ==
    \E message_id \in MessageIds, user_id \in Reactors, emoji \in Emojis :
        /\ LET r == add_reaction(messages, event_queue, message_id, user_id, emoji)
           IN  /\ messages' = r.messages
               /\ event_queue' = r.queue
               /\ last' = Call("add_reaction", user_id, emoji, message_id, Bool(r.ret))
        /\ Len(event_queue') <= MaxEvents
        /\ UNCHANGED <<userVars, connVars, roomVars, room_messages, user_messages,
                       busVars, wired, raising, joining, clock, status_written, query>>

RemoveReaction ==
    \E message_id \in MessageIds, user_id \in Reactors, emoji \in Emojis :
        /\ LET r == remove_reaction(messages, event_queue, message_id, user_id, emoji)
           IN  /\ messages' = r.messages
               /\ event_queue' = r.queue
               /\ last' = Call("remove_reaction", user_id, emoji, message_id, Bool(r.ret))
        /\ Len(event_queue') <= MaxEvents
        /\ UNCHANGED <<userVars, connVars, roomVars, room_messages, user_messages,
                       busVars, wired, raising, joining, clock, status_written, query>>

-----------------------------------------------------------------------------
(* SocialPlatform: the facade.  A response is "success", "failure" (success =
   False with no error key), an error message (success = False with that
   error), or the exception that left the method. *)

PlatformRegisterUser ==
    \E user_data \in UserData, fresh_id \in AccountIds :
        /\ user_data.user_id = Absent => fresh_id \in FreeUserIds
        /\ user_data.user_id # Absent => fresh_id = user_data.user_id
        /\ DOMAIN active_sessions # SessionIds
        /\ LET session_id == Fresh(SessionIds, DOMAIN active_sessions)
               r == create_user(users, active_sessions, event_queue,
                                user_data, fresh_id, session_id)
           IN  /\ users' = r.users
               /\ active_sessions' = r.sessions
               /\ event_queue' = r.queue
               /\ last' = Call("register_user", r.user_id, None,
                               IF r.ret = "profile" THEN session_id ELSE NoId,
                               IF r.ret = "profile" THEN "success" ELSE r.ret)
        /\ Len(event_queue') <= MaxEvents
        /\ UNCHANGED <<connVars, roomVars, msgVars, busVars, wired, raising, joining, clock, status_written, query>>

PlatformLoginUser ==
    \E user_id \in UserIds :
        /\ IF user_id \notin DOMAIN users
           THEN /\ last' = Call("login_user", user_id, None, NoId, "User not found")
                /\ UNCHANGED <<users, active_sessions, event_queue>>
           ELSE /\ DOMAIN active_sessions # SessionIds
                /\ LET session_id == Fresh(SessionIds, DOMAIN active_sessions)
                       r == create_session(users, active_sessions, event_queue,
                                           user_id, session_id)
                   IN  /\ users' = r.users
                       /\ active_sessions' = r.sessions
                       /\ event_queue' = r.queue
                       /\ last' = Call("login_user", user_id, None, session_id, "success")
        /\ Len(event_queue') <= MaxEvents
        /\ UNCHANGED <<connVars, roomVars, msgVars, busVars, wired, raising, joining, clock, status_written, query>>

PlatformLogoutUser ==
    \E session_id \in SessionIds :
        /\ LET r == end_session(users, active_sessions, event_queue, session_id)
           IN  /\ users' = r.users
               /\ active_sessions' = r.sessions
               /\ event_queue' = r.queue
               /\ last' = Call("logout_user", Get(active_sessions, session_id, None), None,
                               session_id, IF r.ret THEN "success" ELSE "failure")
        /\ Len(event_queue') <= MaxEvents
        /\ UNCHANGED <<connVars, roomVars, msgVars, busVars, wired, raising, joining, clock, status_written, query>>

PlatformSendFriendRequest ==
    \E user_id \in UserIds, target_user_id \in UserIds :
        /\ IF user_id \notin DOMAIN users \/ target_user_id \notin DOMAIN users
           THEN /\ last' = Call("send_friend_request", user_id, target_user_id, NoId,
                                "User not found")
                /\ UNCHANGED <<connections, user_connections, event_queue>>
           ELSE IF get_connection(connections, user_connections, user_id, target_user_id)
                     # {NoId}
           THEN /\ last' = Call("send_friend_request", user_id, target_user_id, NoId,
                                "Connection already exists")
                /\ UNCHANGED <<connections, user_connections, event_queue>>
           ELSE /\ DOMAIN connections # ConnectionIds
                /\ \E reverse_connection \in
                        get_connection(connections, user_connections,
                                       target_user_id, user_id) :
                     LET connection_id == Fresh(ConnectionIds, DOMAIN connections)
                         r == create_connection(connections, user_connections, user_id,
                                                target_user_id, FRIEND, connection_id,
                                                reverse_connection)
                     IN  /\ connections' = r.connections
                         /\ user_connections' = r.user_connections
                         /\ event_queue' =
                              emit_event(event_queue,
                                         SocialEvent("friend_request_sent", user_id, None))
                         /\ last' = Call("send_friend_request", user_id, target_user_id,
                                         connection_id, "success")
        /\ Len(event_queue') <= MaxEvents
        /\ UNCHANGED <<userVars, roomVars, msgVars, busVars, wired, raising, joining, clock, status_written, query>>

PlatformCreateRoom ==
    \E room_data \in RoomData :
        /\ room_data.room_id = Absent => DOMAIN rooms # RoomIds
        /\ LET fresh_id == IF DOMAIN rooms # RoomIds
                           THEN CHOOSE x \in RoomIds \ DOMAIN rooms : TRUE ELSE None
               c == create_room(rooms, room_data, fresh_id)
           IN  IF c.ret # "room"
               THEN /\ last' = Call("create_room", None, None, NoId, c.ret)
                    /\ UNCHANGED <<rooms, user_rooms, event_queue>>
               ELSE LET j == join_room(c.rooms, user_rooms, event_queue, c.room_id,
                                       room_data.owner_id)
                    IN  /\ rooms' = j.rooms
                        /\ user_rooms' = j.user_rooms
                        /\ event_queue' = j.queue
                        /\ last' = Call("create_room", c.room_id, room_data.owner_id,
                                        NoId, "success")
        /\ Len(event_queue') <= MaxEvents
        /\ UNCHANGED <<userVars, connVars, msgVars, busVars, wired, raising, joining, clock, status_written, query>>

PlatformJoinRoom ==
    \E room_id \in RoomIds, user_id \in UserIds :
        /\ LET r == join_room(rooms, user_rooms, event_queue, room_id, user_id)
           IN  /\ rooms' = r.rooms
               /\ user_rooms' = r.user_rooms
               /\ event_queue' = r.queue
               /\ room_subscriptions' =
                    IF r.ret THEN subscribe_to_room(room_subscriptions, user_id, room_id)
                    ELSE room_subscriptions
               /\ last' = Call("join_room", room_id, user_id, NoId,
                               IF r.ret THEN "success" ELSE "failure")
        /\ Len(event_queue') <= MaxEvents
        /\ UNCHANGED <<userVars, connVars, msgVars, user_subscriptions, wired, raising, joining, clock, status_written, query>>

PlatformLeaveRoom ==
    \E room_id \in RoomIds, user_id \in UserIds :
        /\ LET r == leave_room(rooms, user_rooms, event_queue, room_id, user_id)
           IN  /\ rooms' = r.rooms
               /\ user_rooms' = r.user_rooms
               /\ event_queue' = r.queue
               /\ room_subscriptions' =
                    IF r.ret THEN unsubscribe_from_room(room_subscriptions, user_id, room_id)
                    ELSE room_subscriptions
               /\ last' = Call("leave_room", room_id, user_id, NoId,
                               IF r.ret THEN "success" ELSE "failure")
        /\ Len(event_queue') <= MaxEvents
        /\ UNCHANGED <<userVars, connVars, msgVars, user_subscriptions, wired, raising, joining, clock, status_written, query>>

PlatformSendMessage ==
    \E message_data \in MessageData :
        /\ DOMAIN messages # MessageIds
        /\ clock < MaxClock
        /\ LET message_id == Fresh(MessageIds, DOMAIN messages)
               r == send_message(messages, room_messages, user_messages, event_queue,
                                 message_data, message_id, clock + 1)
           IN  /\ messages' = r.messages
               /\ room_messages' = r.room_messages
               /\ user_messages' = r.user_messages
               /\ event_queue' = r.queue
               /\ clock' = IF r.ret = "message" THEN clock + 1 ELSE clock
               /\ last' = Call("send_message", message_data.sender_id,
                               message_data.room_id,
                               IF r.ret = "message" THEN message_id ELSE NoId,
                               IF r.ret = "message" THEN "success" ELSE r.ret)
        /\ Len(event_queue') <= MaxEvents
        /\ UNCHANGED <<userVars, connVars, roomVars, busVars, wired, raising, joining, status_written, query>>

-----------------------------------------------------------------------------
(* The state after construction: every dictionary and list is empty *)

InitState ==
    /\ users = EmptyDict
    /\ active_sessions = EmptyDict
    /\ connections = EmptyDict
    /\ user_connections = EmptyDict
    /\ rooms = EmptyDict
    /\ user_rooms = EmptyDict
    /\ messages = EmptyDict
    /\ room_messages = EmptyDict
    /\ user_messages = EmptyDict
    /\ user_subscriptions = EmptyDict
    /\ room_subscriptions = EmptyDict
    /\ event_queue = << >>
    /\ joining = {}
    /\ clock = 0
    /\ status_written = FALSE
    /\ query = Query("none", None, 0, NoTimestamp, << >>)
    /\ last = Call("init", None, None, NoId, None)

\* a manager constructed on its own: its callback list is empty
InitBare == InitState /\ wired = FALSE /\ raising = "none"

\* SocialPlatform(): _setup_callbacks has registered the three callbacks
InitPlatform == InitState /\ wired = TRUE /\ raising = "none"

\* the platform's callbacks and, in each manager's callback list, one callback
\* that raises, registered before them or after them
InitRaising == InitState /\ wired = TRUE /\ raising \in {"first", "last"}

NextUsers == CreateUser \/ UpdateUser \/ SetUserStatus \/ CreateSession \/ EndSession

SpecUsers == InitBare /\ [][NextUsers]_vars

\* the users with the platform's presence callback registered
NextPresence == CreateUser \/ SetUserStatus

SpecPresence == InitPlatform /\ [][NextPresence]_vars

NextConnections == CreateConnection \/ RemoveConnection

SpecConnections == InitBare /\ [][NextConnections]_vars

\* the connection graph over every user, and its suggestions
NextSuggest == CreateConnectionAnyUser \/ SuggestConnections

SpecSuggest == InitBare /\ [][NextSuggest]_vars

NextRooms == CreateRoom \/ JoinRoom \/ LeaveRoom \/ DeleteRoom

SpecRooms == InitBare /\ [][NextRooms]_vars

\* the rooms with the platform's room callback registered
SpecRoomsWired == InitPlatform /\ [][NextRooms]_vars

\* join_room calls interleaved at their await
NextJoining == CreateRoom \/ JoinRoomCall \/ JoinRoomResume

SpecJoining == InitPlatform /\ [][NextJoining]_vars

\* the rooms with their moderators
NextModerators == CreateRoom \/ JoinRoom \/ LeaveRoom \/ AddModerator

SpecModerators == InitBare /\ [][NextModerators]_vars

\* the message store with the platform's message callback registered
NextMessages == SendMessage \/ EditMessage \/ DeleteMessage

SpecMessages == InitPlatform /\ [][NextMessages]_vars

\* the message store on its own
\* the managers with a callback that raises in their callback lists
NextRaising == CreateUser \/ EndSession \/ SendMessage

SpecRaising == InitRaising /\ [][NextRaising]_vars

\* the event bus on its own
NextBus == EmitEvent \/ SubscribeUser \/ SubscribeToRoom \/ GetRecentEvents

SpecBus == InitBare /\ [][NextBus]_vars

\* the event bus with subscriptions taken and given up between the reads
NextResubscribe ==
    \/ EmitEvent \/ SubscribeUser \/ SubscribeToRoom \/ UnsubscribeFromRoom
    \/ GetRecentEvents

SpecResubscribe == InitBare /\ [][NextResubscribe]_vars

\* the message store and its reads
NextHistory == SendMessage \/ DeleteMessage \/ GetRoomMessages

SpecHistory == InitBare /\ [][NextHistory]_vars

NextReactions == SendMessage \/ AddReaction \/ RemoveReaction

SpecReactions == InitBare /\ [][NextReactions]_vars

\* The facade.  Its three groups of operations work on disjoint dictionaries
\* and meet only in the event history, so each group is explored on its own.

\* rooms and messages
Next ==
    \/ PlatformCreateRoom \/ PlatformJoinRoom \/ PlatformLeaveRoom
    \/ PlatformSendMessage

Spec == InitPlatform /\ [][Next]_vars

\* accounts and sessions
NextAccounts == PlatformRegisterUser \/ PlatformLoginUser \/ PlatformLogoutUser

SpecAccounts == InitPlatform /\ [][NextAccounts]_vars

\* the accounts with the statuses a client sets between two logins
NextLogin ==
    \/ PlatformRegisterUser \/ PlatformLoginUser \/ PlatformLogoutUser
    \/ SetUserStatus

SpecLogin == InitPlatform /\ [][NextLogin]_vars

\* friend requests between registered users, beside direct calls of the
\* connection manager
NextFriends ==
    \/ PlatformRegisterUser \/ PlatformSendFriendRequest
    \/ CreateConnection

SpecFriends == InitPlatform /\ [][NextFriends]_vars

\* the connections made through send_friend_request alone
NextRequests == PlatformRegisterUser \/ PlatformSendFriendRequest

SpecRequests == InitPlatform /\ [][NextRequests]_vars

-----------------------------------------------------------------------------
(* Claims about UserManager *)

SessionsOf(ss, user_id) == {s \in DOMAIN ss : ss[s] = user_id}

\* C3: end_session on an existing session removes exactly that session; the
\* owner's status becomes offline when no other session of the owner is left
\* and is left as it was when one is; every other profile is untouched.  On
\* an unknown session id it returns False and changes neither the sessions
\* nor any profile.
C3_EndSession ==
    [][last'.op = "end_session" /\ vars' # vars =>
        LET sid == last'.id IN
        IF sid \in DOMAIN active_sessions
        THEN LET u == active_sessions[sid] IN
             /\ last'.ret = "True"
             /\ last'.a1 = u
             /\ active_sessions' = Del(active_sessions, sid)
             /\ DOMAIN users' = DOMAIN users
             /\ \A v \in DOMAIN users : v # u => users'[v] = users[v]
             /\ u \in DOMAIN users =>
                    /\ users'[u].username = users[u].username
                    /\ users'[u].status =
                          IF SessionsOf(active_sessions', u) = {}
                          THEN OFFLINE ELSE users[u].status
        ELSE /\ last'.ret = "False"
             /\ UNCHANGED <<users, active_sessions>>
    ]_vars

\* a non-last session of an away user was ended: the user is still away
C3_Witness ==
    /\ last.op = "end_session" /\ last.ret = "True"
    /\ last.a1 \in DOMAIN users
    /\ SessionsOf(active_sessions, last.a1) # {}
    /\ users[last.a1].status = AWAY

\* C4 as stated: a user's status is other than offline iff an active session
\* references the user
C4_OnlineIffSession ==
    \A u \in DOMAIN users :
        users[u].status # OFFLINE <=> SessionsOf(active_sessions, u) # {}

\* C4 amended: in the states that create_user, create_session and end_session
\* calls alone reach (no set_user_status or update_user call was made), a
\* user's status is other than offline iff an active session references the user
C4_OnlineIffSession_SessionOps ==
    ~status_written =>
        \A u \in DOMAIN users :
            users[u].status # OFFLINE <=> SessionsOf(active_sessions, u) # {}

\* a registered user went offline by ending the last session
C4_Witness ==
    /\ ~status_written
    /\ last.op = "end_session" /\ last.ret = "True"
    /\ last.a1 \in DOMAIN users
    /\ SessionsOf(active_sessions, last.a1) = {}
    /\ users[last.a1].status = OFFLINE

\* C12 as stated: a registered identifier stays registered, and a create_user
\* call never replaces the profile stored under an identifier registered
\* before the call (its username stays what it was)
C12_ProfileCreatedOnce ==
    [][/\ DOMAIN users \subseteq DOMAIN users'
       /\ last'.op = "create_user" =>
              \A u \in DOMAIN users : users'[u].username = users[u].username
    ]_vars

\* C14: with the presence callback registered, set_user_status(id, s) on a
\* known user returns True, stores s and appends exactly one
\* user_presence_changed event of that user when s differs from the status at
\* call time, and no event when s equals it; on an unknown id it returns False
\* and changes no user, no session and no event
C14_NotifyIffChanged ==
    [][last'.op = "set_user_status" =>
        LET u == last'.a1
            s == last'.a2
        IN  IF u \in DOMAIN users
            THEN /\ last'.ret = "True"
                 /\ users'[u].status = s
                 /\ event_queue' =
                        IF users[u].status # s
                        THEN Append(event_queue,
                                    SocialEvent("user_presence_changed", u, None))
                        ELSE event_queue
            ELSE /\ last'.ret = "False"
                 /\ UNCHANGED <<users, active_sessions, event_queue>>
    ]_vars

\* set_user_status was called on a known user with the status the user had:
\* the history is still empty
C14_Witness ==
    /\ last.op = "set_user_status" /\ last.ret = "True"
    /\ users[last.a1].status = last.a2
    /\ event_queue = << >>

\* C21: create_user with a username in its data stores the profile under its
\* identifier with that username, adds exactly one session, a new one that
\* references the user, and leaves the user online; create_user without a
\* username raises and leaves users and active_sessions as they were
C21_CreateUser ==
    [][last'.op = "create_user" =>
        IF last'.a2 # Absent
        THEN /\ last'.ret = "profile"
             /\ last'.a1 \in DOMAIN users'
             /\ users'[last'.a1].username = last'.a2
             /\ users'[last'.a1].status = ONLINE
             /\ last'.id \notin DOMAIN active_sessions
             /\ DOMAIN active_sessions' = DOMAIN active_sessions \cup {last'.id}
             /\ active_sessions'[last'.id] = last'.a1
             /\ \A s \in DOMAIN active_sessions : active_sessions'[s] = active_sessions[s]
        ELSE /\ last'.ret = "KeyError"
             /\ UNCHANGED <<users, active_sessions>>
    ]_vars

\* a profile was created, with its session, the user online
C21_Witness ==
    /\ last.op = "create_user" /\ last.ret = "profile"
    /\ last.id \in DOMAIN active_sessions
    /\ active_sessions[last.id] = last.a1
    /\ users[last.a1].status = ONLINE

-----------------------------------------------------------------------------
(* Claims about ConnectionManager *)

\* the edges B -> A of type T held before the call
ReverseEdges(cs, uc, A, B, T) ==
    {c \in Get(uc, B, {}) :
        /\ c \in DOMAIN cs
        /\ cs[c].target_user_id = A
        /\ cs[c].connection_type = T}

\* C2 as stated: right after create_connection(A, B, T) with A # B, if an edge B -> A of
\* type T existed at call time, the new edge and such an edge are mutual,
\* whatever other edges B holds towards A
C2_MutualOnReverse ==
    [][last'.op = "create_connection" =>
        LET new == last'.id
            A == last'.a1
            B == last'.a2
            T == connections'[new].connection_type
            reverse == ReverseEdges(connections, user_connections, A, B, T)
        IN  A # B /\ reverse # {} =>
                /\ connections'[new].mutual
                /\ \E c \in reverse : connections'[c].mutual
    ]_vars

\* C15: remove_connection(id) on an existing edge returns True, removes that
\* edge and its index entry and leaves every other edge as it was, mutual flag
\* included; on an unknown id it returns False and changes nothing; and
\* create_connection(A, B, T) changes the mutual flag of no existing edge other
\* than an edge B -> A
C15_MutualFrame ==
    [][/\ last'.op = "remove_connection" =>
            LET c == last'.id
            IN  IF c \in DOMAIN connections
                THEN /\ last'.ret = "True"
                     /\ DOMAIN connections' = DOMAIN connections \ {c}
                     /\ \A d \in DOMAIN connections' : connections'[d] = connections[d]
                     /\ DOMAIN user_connections' = DOMAIN user_connections
                     /\ \A u \in DOMAIN user_connections :
                            user_connections'[u] = user_connections[u] \ {c}
                ELSE /\ last'.ret = "False"
                     /\ UNCHANGED <<connections, user_connections>>
       /\ last'.op = "create_connection" =>
            \A d \in DOMAIN connections :
                connections'[d].mutual # connections[d].mutual =>
                    /\ connections[d].user_id = last'.a2
                    /\ connections[d].target_user_id = last'.a1
    ]_vars

\* an edge was removed and an edge that stays is still mutual
C15_Witness ==
    /\ last.op = "remove_connection" /\ last.ret = "True"
    /\ \E d \in DOMAIN connections : connections[d].mutual

\* the users a FRIEND edge of the directory leads to from user_id
FriendsOf(user_id) ==
    {connections[c].target_user_id :
        c \in {d \in DOMAIN connections : /\ connections[d].user_id = user_id
                                          /\ connections[d].connection_type = FRIEND}}

\* C20: suggest_connections(U, limit) returns a list without duplicates, of at
\* most limit entries, each the target of a FRIEND edge from a FRIEND-target of
\* U, other than U and not a FRIEND-target of U; every such candidate is in
\* the list when there are at most limit of them
C20_Suggestions ==
    last.op = "suggest_connections" =>
        LET U == query.key
            result == query.result
            candidates == {p \in UNION {FriendsOf(f) : f \in FriendsOf(U)} :
                              p # U /\ p \notin FriendsOf(U)}
        IN  /\ \A i, j \in DOMAIN result : result[i] = result[j] => i = j
            /\ Len(result) <= query.limit
            /\ \A i \in DOMAIN result : result[i] \in candidates
            /\ Cardinality(candidates) <= query.limit =>
                   \A p \in candidates : \E i \in DOMAIN result : result[i] = p

\* a user reached by two FRIEND edges from friends of U was suggested, once
C20_Witness ==
    /\ last.op = "suggest_connections"
    /\ Len(query.result) = 1
    /\ \E c, d \in DOMAIN connections :
          /\ c # d
          /\ connections[c].connection_type = FRIEND
          /\ connections[d].connection_type = FRIEND
          /\ connections[c].target_user_id = query.result[1]
          /\ connections[d].target_user_id = query.result[1]
          /\ connections[c].user_id \in FriendsOf(query.key)
          /\ connections[d].user_id \in FriendsOf(query.key)

-----------------------------------------------------------------------------
(* Claims about RoomManager *)

Members(rs, room_id) == rs[room_id].current_users

\* C1: whatever create_room, join_room, leave_room and delete_room calls were
\* made, a room of capacity >= 1 never holds more members than its capacity;
\* and a join_room call on a room whose member count equals its capacity
\* returns False and changes neither the rooms nor the user -> room index.
C1_CapacityRespected ==
    [][/\ \A r \in DOMAIN rooms' :
            rooms'[r].capacity >= 1 =>
                Cardinality(Members(rooms', r)) <= rooms'[r].capacity
       /\ \A r \in DOMAIN rooms :
            /\ last'.op = "join_room" /\ last'.a1 = r
            /\ Cardinality(Members(rooms, r)) = rooms[r].capacity
            => /\ last'.ret = "False"
               /\ rooms' = rooms
               /\ user_rooms' = user_rooms
    ]_vars

\* a user who is not a member was refused by a full room of capacity >= 1
C1_Witness ==
    /\ last.op = "join_room" /\ last.ret = "False"
    /\ last.a1 \in DOMAIN rooms
    /\ rooms[last.a1].capacity >= 1
    /\ Cardinality(Members(rooms, last.a1)) = rooms[last.a1].capacity
    /\ last.a2 \notin Members(rooms, last.a1)

\* C6: when a successful leave_room empties a room, the room is gone from the
\* directory on return if its type is TEMPORARY and is still there otherwise
C6_TemporaryCascade ==
    [][\A r \in DOMAIN rooms :
        /\ last'.op = "leave_room" /\ last'.a1 = r /\ last'.ret = "True"
        /\ Members(rooms, r) = {last'.a2}
        => IF rooms[r].room_type = TEMPORARY
           THEN r \notin DOMAIN rooms'
           ELSE r \in DOMAIN rooms' /\ Members(rooms', r) = {}
    ]_vars

\* the last member left and the room is gone
C6_Witness ==
    /\ last.op = "leave_room" /\ last.ret = "True"
    /\ last.a1 \notin DOMAIN rooms

\* C11 as stated: the owner of every room of the directory is one of the room's
\* moderators, in every state create_room, join_room, leave_room and
\* add_moderator reach
C11_OwnerIsModerator ==
    \A r \in DOMAIN rooms : rooms[r].owner_id \in rooms[r].moderators

\* C13 as stated: delete_room on an existing room, whatever its type and
\* members, returns True and raises nothing, emits one user_left room event per
\* former member, and leaves the room out of the directory and out of every
\* user's room index; on an unknown room it returns False and changes nothing
C13_DeleteRoom ==
    [][last'.op = "delete_room" =>
        LET r == last'.a1
        IN  IF r \in DOMAIN rooms
            THEN /\ last'.ret = "True"
                 /\ r \notin DOMAIN rooms'
                 /\ \A u \in DOMAIN user_rooms' : r \notin user_rooms'[u]
                 /\ \E o \in Orders(Members(rooms, r)) :
                        event_queue' = event_queue \o
                            [i \in DOMAIN o |-> SocialEvent("room_user_left", o[i], r)]
            ELSE /\ last'.ret = "False"
                 /\ UNCHANGED <<rooms, user_rooms, event_queue>>
    ]_vars

\* C19: add_moderator(room, newMod, requester) returns True and adds newMod to
\* the room's moderators, changing nothing else, exactly when the room exists
\* and the requester is the room's owner or one of its moderators at call
\* time; otherwise it returns False and leaves every room as it was
C19_AddModerator ==
    [][last'.op = "add_moderator" =>
        LET r == last'.a1
            newMod == last'.a2
            requester == last'.a3
        IN  IF /\ r \in DOMAIN rooms
               /\ requester = rooms[r].owner_id \/ requester \in rooms[r].moderators
            THEN /\ last'.ret = "True"
                 /\ rooms' = [rooms EXCEPT ![r].moderators = @ \cup {newMod}]
            ELSE /\ last'.ret = "False"
                 /\ rooms' = rooms
    ]_vars

\* the owner, no longer a moderator after leaving the room, named a moderator
C19_Witness ==
    /\ last.op = "add_moderator" /\ last.ret = "True"
    /\ last.a1 \in DOMAIN rooms
    /\ last.a3 = rooms[last.a1].owner_id
    /\ last.a3 \notin rooms[last.a1].moderators
    /\ last.a2 \in rooms[last.a1].moderators

\* C22: leave_room(room, user) on an unknown room or a user who is not a
\* member returns False, appends no event and leaves rooms and the user -> room
\* index as they were; otherwise it returns True, appends exactly one user_left
\* room event, takes the room out of the user's index, and the room is either
\* there without the user among its members and moderators, or deleted as a
\* TEMPORARY room the user was the last member of
C22_LeaveRoom ==
    [][last'.op = "leave_room" =>
        LET r == last'.a1
            u == last'.a2
        IN  IF r \notin DOMAIN rooms \/ u \notin rooms[r].current_users
            THEN /\ last'.ret = "False"
                 /\ UNCHANGED <<rooms, user_rooms, event_queue>>
            ELSE /\ last'.ret = "True"
                 /\ event_queue' =
                        Append(event_queue, SocialEvent("room_user_left", u, r))
                 /\ r \notin Get(user_rooms', u, {})
                 /\ IF r \in DOMAIN rooms'
                    THEN rooms' = [rooms EXCEPT ![r].current_users = @ \ {u},
                                                ![r].moderators = @ \ {u}]
                    ELSE /\ rooms[r].room_type = TEMPORARY
                         /\ rooms[r].current_users = {u}
    ]_vars

\* a moderator left a room that stays, and is no longer one of its moderators
C22_Witness ==
    /\ last.op = "leave_room" /\ last.ret = "True"
    /\ last.a1 \in DOMAIN rooms
    /\ rooms[last.a1].owner_id = last.a2
    /\ last.a2 \notin rooms[last.a1].moderators
    /\ event_queue # << >>
    /\ event_queue[Len(event_queue)] = SocialEvent("room_user_left", last.a2, last.a1)

\* C25: join_room checks the capacity and inserts the member before its only
\* await, so with join_room calls of one room interleaved at that await the
\* member count never exceeds the capacity: a call that reaches the await
\* found the room below its capacity and has its user inserted on suspension
C25_InterleavedJoins ==
    [][/\ \A r \in DOMAIN rooms' :
            Cardinality(Members(rooms', r)) <= rooms'[r].capacity
       /\ (last'.op = "join_room" /\ last'.ret = "suspended")
          => /\ last'.a1 \in DOMAIN rooms
             /\ Cardinality(Members(rooms, last'.a1)) < rooms[last'.a1].capacity
             /\ last'.a2 \in Members(rooms', last'.a1)
    ]_vars

\* two calls joining one room are suspended together, the room is full, and
\* a third user's call has just been refused
C25_Witness ==
    /\ Cardinality(joining) = 2
    /\ last.op = "join_room" /\ last.ret = "False"
    /\ last.a1 \in DOMAIN rooms
    /\ \A t \in joining : t.room_id = last.a1 /\ t.user_id \in Members(rooms, last.a1)
    /\ Cardinality({t.user_id : t \in joining}) = 2
    /\ Cardinality(Members(rooms, last.a1)) = rooms[last.a1].capacity
    /\ last.a2 \notin Members(rooms, last.a1)

\* C26 as stated: in every state reached by create_room, join_room, leave_room
\* and delete_room, room R is in the user -> room index of user U exactly when
\* R exists and U is among its current members; no index entry names a room
\* that is gone
C26_IndexMatchesMembers ==
    \A R \in RoomIds, U \in UserIds :
        R \in Get(user_rooms, U, {})
        <=> (R \in DOMAIN rooms /\ U \in Members(rooms, R))

-----------------------------------------------------------------------------
(* Claims about MessageManager *)

\* C5: edit_message and delete_message called for an unknown message id or by
\* a requester who is not the message's sender return False, leave the store
\* and both indexes as they were (content and edited_at included) and emit no
\* event
C5_OnlySenderEditsOrDeletes ==
    [][/\ last'.op \in {"edit_message", "delete_message"}
       /\ \/ last'.id \notin DOMAIN messages
          \/ messages[last'.id].sender_id # last'.a1
       => /\ last'.ret = "False"
          /\ messages' = messages
          /\ room_messages' = room_messages
          /\ user_messages' = user_messages
          /\ event_queue' = event_queue
    ]_vars

\* another user's edit of a stored message was refused; the content differs
\* from the content the edit carried
C5_Witness ==
    /\ last.op = "edit_message" /\ last.ret = "False"
    /\ last.id \in DOMAIN messages
    /\ messages[last.id].sender_id # last.a1
    /\ messages[last.id].room_id # None
    /\ messages[last.id].content # last.a2

NoEmptyReactionList ==
    \A m \in DOMAIN messages :
        \A e \in DOMAIN messages[m].reactions : messages[m].reactions[e] # << >>

\* the step is remove_reaction(m, u, e) right after a successful add_reaction(m, u, e)
AddThenRemove ==
    /\ last.op = "add_reaction" /\ last.ret = "True"
    /\ last'.op = "remove_reaction"
    /\ last'.id = last.id /\ last'.a1 = last.a1 /\ last'.a2 = last.a2

\* the members of a list other than x
Others(list, x) == {list[i] : i \in DOMAIN list} \ {x}

\* C7 as stated: add_reaction then remove_reaction with the same message, user
\* and emoji leaves the reactions map without that emoji key; and no reachable
\* state holds an emoji key with an empty list
C7_AddRemoveDropsKey ==
    [][/\ AddThenRemove => last'.a2 \notin DOMAIN messages'[last'.id].reactions
       /\ NoEmptyReactionList'
    ]_vars

\* C7 amended: add_reaction then remove_reaction with the same message, user
\* and emoji returns True and leaves the emoji's list without that user: the key
\* is gone when no other user had reacted with the emoji, and otherwise holds
\* the other reactors in their order; no reachable state holds an emoji key
\* with an empty list
C7_AddRemoveDropsUser ==
    [][/\ AddThenRemove =>
            LET m == last'.id
                u == last'.a1
                e == last'.a2
                before == messages[m].reactions[e]
                after  == messages'[m].reactions
            IN  /\ last'.ret = "True"
                /\ IF Others(before, u) = {} THEN e \notin DOMAIN after
                   ELSE e \in DOMAIN after /\ after[e] = Remove(before, u)
       /\ NoEmptyReactionList'
    ]_vars

\* a reaction was removed and the emoji key is still there, held by another user
C7_Witness ==
    /\ last.op = "remove_reaction" /\ last.ret = "True"
    /\ last.id \in DOMAIN messages
    /\ last.a2 \in DOMAIN messages[last.id].reactions
    /\ ~Contains(messages[last.id].reactions[last.a2], last.a1)

\* the position of x in a list without duplicates
IndexOf(list, x) == CHOOSE i \in DOMAIN list : list[i] = x

\* C16 as stated: get_room_messages(room, limit, before) returns stored
\* messages of the room's index, newest first, only messages with a timestamp
\* strictly less than before when before is given, and at most limit messages
\* for every limit >= 0
C16_RoomMessages ==
    last.op = "get_room_messages" =>
        LET result == query.result
            message_ids == Get(room_messages, query.key, << >>)
        IN  /\ \A i \in DOMAIN result :
                   result[i] \in DOMAIN messages /\ Contains(message_ids, result[i])
            /\ \A i, j \in DOMAIN result :
                   i < j => IndexOf(message_ids, result[i]) > IndexOf(message_ids, result[j])
            /\ query.before_timestamp # NoTimestamp =>
                   \A i \in DOMAIN result :
                       messages[result[i]].timestamp < query.before_timestamp
            /\ Len(result) <= query.limit

-----------------------------------------------------------------------------
(* Claims about the facade *)

RecentEvents(user_id, limit) ==
    get_recent_events(user_subscriptions, room_subscriptions, event_queue, user_id, limit)

\* C8 as stated: with the callbacks wired, once bob is subscribed to room R and
\* alice has sent a message addressed to R, get_recent_events(bob, 10) holds
\* an event of type message_sent whose room_id is R
C8_MessageSentEvent ==
    \A R \in RoomIds :
        /\ last.op = "send_message" /\ last.ret = "success"
        /\ last.a1 = "alice" /\ last.a2 = R
        /\ "bob" \in Get(room_subscriptions, R, {})
        => \E i \in DOMAIN RecentEvents("bob", 10) :
              /\ RecentEvents("bob", 10)[i].event_type = "message_sent"
              /\ RecentEvents("bob", 10)[i].room_id = R

\* C24 as stated: after any sequence of the facade's create_room, join_room
\* and leave_room, a user is subscribed to a room's events exactly when the
\* user is a current member of that room, the auto-joined owner included
C24_SubscribedIffMember ==
    \A R \in RoomIds, U \in UserIds :
        U \in Get(room_subscriptions, R, {})
        <=> (R \in DOMAIN rooms /\ U \in rooms[R].current_users)

-----------------------------------------------------------------------------
(* Claims about RealtimeManager *)

\* the three conditions of the claim on one event
Qualifies(event, user_id) ==
    \/ event.event_type \in Get(user_subscriptions, user_id, {})
    \/ event.user_id = user_id
    \/ user_id \in Get(room_subscriptions, event.room_id, {})

\* the positions of the history in descending order
RECURSIVE Newest(_)
Newest(positions) ==
    IF positions = {} THEN << >>
    ELSE LET top == CHOOSE i \in positions : \A j \in positions : j <= i
         IN  <<top>> \o Newest(positions \ {top})

\* C17 as stated: get_recent_events(user, limit) returns, newest first, exactly
\* the most recent qualifying events of the history, up to limit of them: no
\* event that qualifies under none of the three conditions, and no qualifying
\* event skipped in favour of an older one
C17_RecentEvents ==
    last.op = "get_recent_events" =>
        LET qualifying == {i \in DOMAIN event_queue : Qualifies(event_queue[i], query.key)}
            newest == Newest(qualifying)
            k == IF Len(newest) <= query.limit THEN Len(newest) ELSE query.limit
        IN  query.result = [i \in 1..k |-> event_queue[newest[i]]]

\* C30: get_recent_events tests each event against the subscriptions as they
\* are when it is called, whenever the event was emitted: with a limit of
\* at least 1, every event returned qualifies under the present
\* subscriptions, so a room's events are not returned to a user who has
\* unsubscribed from it unless the user originated them or is subscribed to
\* their type; and with a limit that the qualifying events do not exceed,
\* every qualifying event of the history is returned, those emitted before
\* the subscription included
C30_SubscriptionsAtQueryTime ==
    (last.op = "get_recent_events" /\ query.limit >= 1) =>
        LET qualifying == {i \in DOMAIN event_queue : Qualifies(event_queue[i], query.key)}
        IN  /\ \A k \in DOMAIN query.result : Qualifies(query.result[k], query.key)
            /\ Len(query.result) <= Cardinality(qualifying)
            /\ Cardinality(qualifying) <= query.limit
               => query.result = [k \in 1..Cardinality(qualifying) |->
                                     event_queue[Newest(qualifying)[k]]]

\* bob has subscribed to a room and unsubscribed from it; the history holds
\* an event of that room which bob no longer gets, and an event of a type bob
\* is subscribed to, which is all that bob's read returned
C30_Witness ==
    /\ last.op = "get_recent_events" /\ query.key = "bob" /\ query.limit >= 2
    /\ \E R \in DOMAIN room_subscriptions :
          /\ "bob" \notin room_subscriptions[R]
          /\ \E i \in DOMAIN event_queue :
                /\ event_queue[i].room_id = R
                /\ ~Qualifies(event_queue[i], "bob")
    /\ Len(query.result) = 1
    /\ query.result[1].event_type \in Get(user_subscriptions, "bob", {})
    /\ query.result[1].user_id # "bob"

IsPrefix(s, t) == Len(s) <= Len(t) /\ SubSeq(t, 1, Len(s)) = s

-----------------------------------------------------------------------------
(* Claims about the facade, continued *)

Exceptions == {"KeyError", "ValueError"}

\* C9 as stated: every facade operation returns a response map, success or
\* not; no exception raised inside a directory leaves the facade
C9_NoExceptionEscapes == last.ret \notin Exceptions

EdgesBetween(cs, user_id, target_user_id) ==
    {c \in DOMAIN cs : cs[c].user_id = user_id /\ cs[c].target_user_id = target_user_id}

\* C10: send_friend_request(user, target) fails when either user is not
\* registered or an edge user -> target of any type exists, and then changes no
\* connection, no index entry and no event; otherwise it succeeds, adds exactly
\* one edge, a FRIEND edge user -> target indexed under user, and appends exactly
\* one event, friend_request_sent by user
C10_FriendRequest ==
    [][last'.op = "send_friend_request" =>
        LET u == last'.a1
            t == last'.a2
        IN  IF \/ u \notin DOMAIN users
               \/ t \notin DOMAIN users
               \/ EdgesBetween(connections, u, t) # {}
            THEN /\ last'.ret \in {"User not found", "Connection already exists"}
                 /\ UNCHANGED <<connections, user_connections, event_queue>>
            ELSE /\ last'.ret = "success"
                 /\ last'.id \notin DOMAIN connections
                 /\ DOMAIN connections' = DOMAIN connections \cup {last'.id}
                 /\ connections'[last'.id].user_id = u
                 /\ connections'[last'.id].target_user_id = t
                 /\ connections'[last'.id].connection_type = FRIEND
                 /\ last'.id \in Get(user_connections', u, {})
                 /\ event_queue' =
                        Append(event_queue, SocialEvent("friend_request_sent", u, None))
    ]_vars

\* a friend request was refused because an edge of another type exists
C10_Witness ==
    /\ last.op = "send_friend_request" /\ last.ret = "Connection already exists"
    /\ \A c \in EdgesBetween(connections, last.a1, last.a2) :
          connections[c].connection_type # FRIEND

\* C27: with connections made through send_friend_request alone, at every
\* moment each ordered pair (user, target) has at most one connection, and
\* both endpoints of every connection are registered users
C27_OneEdgePerPair ==
    /\ \A u \in UserIds, t \in UserIds :
          Cardinality(EdgesBetween(connections, u, t)) <= 1
    /\ \A c \in DOMAIN connections :
          /\ connections[c].user_id \in DOMAIN users
          /\ connections[c].target_user_id \in DOMAIN users

\* a second request for a pair was refused while the pair's edge and the
\* opposite edge both exist
C27_Witness ==
    /\ last.op = "send_friend_request" /\ last.ret = "Connection already exists"
    /\ last.a1 # last.a2
    /\ Cardinality(EdgesBetween(connections, last.a1, last.a2)) = 1
    /\ Cardinality(EdgesBetween(connections, last.a2, last.a1)) = 1

\* C28: login_user of a registered user adds exactly one session, of that
\* user, and leaves the user's status ONLINE whatever it was; it appends one
\* user_presence_changed event when the status was not ONLINE and no event
\* when it was.  login_user of an unknown user fails and adds no session.
C28_LoginUser ==
    [][last'.op = "login_user" =>
        LET u == last'.a1
        IN  IF u \in DOMAIN users
            THEN /\ last'.ret = "success"
                 /\ last'.id \notin DOMAIN active_sessions
                 /\ DOMAIN active_sessions' = DOMAIN active_sessions \cup {last'.id}
                 /\ active_sessions'[last'.id] = u
                 /\ \A x \in DOMAIN active_sessions : active_sessions'[x] = active_sessions[x]
                 /\ users'[u].status = ONLINE
                 /\ event_queue' =
                        IF users[u].status # ONLINE
                        THEN Append(event_queue,
                                    SocialEvent("user_presence_changed", u, None))
                        ELSE event_queue
            ELSE /\ last'.ret = "User not found"
                 /\ UNCHANGED <<users, active_sessions, event_queue>>
    ]_vars

\* a user whose only session was ended logged in again: with no status ever
\* set by a client, the history holds the logout's event and the login's
C28_Witness ==
    /\ last.op = "login_user" /\ last.ret = "success"
    /\ ~status_written
    /\ SessionsOf(active_sessions, last.a1) = {last.id}
    /\ users[last.a1].status = ONLINE
    /\ Len(event_queue) = 2
    /\ event_queue[2] = SocialEvent("user_presence_changed", last.a1, None)

\* C29: register_user never appends an event to the history, for a new user
\* and for a user registered again whatever the status was: the profile is
\* built ONLINE, so the status set by its first session is not a change
C29_RegisterUserSilent ==
    [][last'.op = "register_user" =>
        /\ event_queue' = event_queue
        /\ last'.ret = "success"
           => /\ users'[last'.a1].status = ONLINE
              /\ last'.id \in DOMAIN active_sessions' \ DOMAIN active_sessions
    ]_vars

\* a user who had logged out was registered again: the history still holds
\* the logout's event alone
C29_Witness ==
    /\ last.op = "register_user" /\ last.ret = "success"
    /\ ~status_written
    /\ DOMAIN users = {last.a1}
    /\ event_queue = <<SocialEvent("user_presence_changed", last.a1, None)>>
    /\ users[last.a1].status = ONLINE

====
